---- MODULE Spec2Model ----
(***************************************************************************)
(* array2sh: a frame-synchronous encoder from sensor-array signals to      *)
(* spherical-harmonic signals (examples/array2sh/src/array2sh.c), and the  *)
(* gain-table initialisation of the companion panner (panner_internal.c).  *)
(*                                                                         *)
(* Two threads share one array2sh_data instance without locks: the control *)
(* thread ("ctl") calls the setters and array2sh_init/array2sh_checkReInit,*)
(* the audio thread ("aud") calls array2sh_process.  Every read or write   *)
(* of a shared field is one step, so that all interleavings of the two     *)
(* threads are explored.                                                   *)
(***************************************************************************)
EXTENDS Integers, Sequences, FiniteSets, TLC

(* ------------------------------ bounds -------------------------------- *)
\* Highest encoding order the setters are called with (the code allows 1..7).
MaxOrder == 2
\* Samples per frame (512 in the library); blocks of FRAME_SIZE-1,
\* FRAME_SIZE and FRAME_SIZE+1 samples are offered to array2sh_process.
FRAME_SIZE == 2
\* Largest number of output channels the host offers.
MaxOutputs == 5
\* Largest number of input channels the host offers.
MaxInputs == 5
\* Calls the control thread makes (setters, array2sh_init) in one run: when
\* the two threads interleave, and when calls do not overlap.
MaxCtlCalls == 1
MaxSeqCtlCalls == 3
\* Calls the control thread makes when the parameters are explored.
MaxParCtlCalls == 2
\* Calls the control thread makes while the host plays into MaxOutputs
\* channels and the threads interleave.
MaxBusyCtlCalls == 2
\* Calls of array2sh_process the audio thread makes in one run.
MaxAudCalls == 1
\* Bands of the time-frequency transform (133 in the library).
HYBRID_BANDS == 3
\* Loudspeakers of the layouts the panner is given.
MaxLoudpkrs == 2
\* Nested calls of panner_initGainTables the stack has room for.
MaxDepth == 3

(* ----------------------------- constants ------------------------------ *)
ENCODING_ORDER_FIRST == 1
CH_ACN == "ACN"
CH_FUMA == "FUMA"
NORM_N3D == "N3D"
NORM_SN3D == "SN3D"
NORM_FUMA == "FUMA"
CH_ORDER == {CH_ACN, CH_FUMA}
NORM_TYPES == {NORM_N3D, NORM_SN3D, NORM_FUMA}

Threads == {"ctl", "aud"}
Orders == ENCODING_ORDER_FIRST..MaxOrder
NSH(n) == (n + 1) * (n + 1)
\* Sensor counts offered to array2sh_setNumSensors: one below the smallest
\* nSH, and the nSH of every order.
SensorCounts == {NSH(ENCODING_ORDER_FIRST) - 1} \cup {NSH(n) : n \in Orders}
\* Array presets: the default (order 1, 4 sensors) and one higher-order array.
Presets == {"DEFAULT", "HIGH"}
PresetOrder(p) == IF p = "DEFAULT" THEN ENCODING_ORDER_FIRST ELSE MaxOrder
PresetQ(p) == NSH(PresetOrder(p))
\* Block shapes the host offers: short, full and over-long blocks with few,
\* four or many channels when calls do not overlap ("seq"), and a full
\* first-order frame otherwise.
OutputCounts(s) ==
    IF s = "seq" THEN {2, 4, MaxOutputs}
    ELSE IF s = "busy" THEN {MaxOutputs} ELSE {4}
BlockSizes(s) == IF s = "seq" THEN {FRAME_SIZE - 1, FRAME_SIZE, FRAME_SIZE + 1}
                 ELSE {FRAME_SIZE}
Playing(s) == IF s = "seq" THEN {0, 1} ELSE {1}
\* Input channels the host supplies: none, as many as the default array has
\* sensors, or more; the default array's count when the threads interleave.
InputCounts(s) == IF s = "seq" THEN {0, NSH(ENCODING_ORDER_FIRST), MaxInputs}
                  ELSE {NSH(ENCODING_ORDER_FIRST)}
\* The calls the host makes differ in at most one argument from the plain
\* call: a playing full frame with four input and four output channels.
Offered(i, o, n, p) ==
    Cardinality({x \in {<<1, i, NSH(ENCODING_ORDER_FIRST)>>,
                        <<2, o, NSH(ENCODING_ORDER_FIRST)>>,
                        <<3, n, FRAME_SIZE>>, <<4, p, 1>>} : x[2] # x[3]}) <= 1
\* Rows of pData->SHframeTF[band]: the nSH of the highest order.
MAX_NUM_SH_SIGNALS == NSH(MaxOrder)
MIN(a, b) == IF a < b THEN a ELSE b

\* Limits of the clamped parameters (radii in millimetres, regularisation
\* and post-gain in dB, speed of sound in m/s).
ARRAY2SH_ARRAY_RADIUS_MIN_VALUE == 1
ARRAY2SH_ARRAY_RADIUS_MAX_VALUE == 400
ARRAY2SH_BAFFLE_RADIUS_MIN_VALUE == 1
ARRAY2SH_BAFFLE_RADIUS_MAX_VALUE == 400
ARRAY2SH_MAX_GAIN_MIN_VALUE == 0
ARRAY2SH_MAX_GAIN_MAX_VALUE == 80
ARRAY2SH_SPEED_OF_SOUND_MIN_VALUE == 200
ARRAY2SH_SPEED_OF_SOUND_MAX_VALUE == 2000
ARRAY2SH_POST_GAIN_MIN_VALUE == -60
ARRAY2SH_POST_GAIN_MAX_VALUE == 12
CLAMP(a, lo, hi) == IF a < lo THEN lo ELSE IF a > hi THEN hi ELSE a
\* Values a clamping setter is called with: below, inside and above its
\* limits when the parameters are explored ("par"), the value already
\* stored otherwise.
ClampArgs(lo, hi, cur, s) == IF s = "par" THEN {lo - 1, lo + 1, hi + 1} ELSE {cur}

\* Geometry of a preset as array2sh_initArray loads it: radius and baffle
\* radius in millimetres, array and weight type, sensor directions.
PresetR(p) == 42
PresetArrayType(p) == "SPHERICAL"
PresetWeightType(p) == "RIGID_OMNI"
PresetCoords(p) == [azi |-> 0, elev |-> 0]
ARRAY_TYPES(s) == IF s = "par" THEN {"SPHERICAL", "CYLINDRICAL"} ELSE {"SPHERICAL"}
WEIGHT_TYPES(s) == IF s = "par" THEN {"RIGID_OMNI", "OPEN_OMNI"} ELSE {"RIGID_OMNI"}
FILTER_TYPES(s) == IF s = "par" THEN {"TIKHONOV", "SOFT_LIM"} ELSE {"TIKHONOV"}
\* Sensor directions in quarter turns: a radians and 90a degrees.
QuarterTurns(s) == IF s = "par" THEN {0, 1} ELSE {0}
RadToDeg(a) == a * 90
DegToRad(d) == d \div 90

\* Band centre frequencies of the transform at 48 kHz, in kHz: band 0 is DC.
Bands == 0..(HYBRID_BANDS - 1)
afCenterFreq48e3(band) == 4 * band
\* pData->freqVector[band] as array2sh_init leaves it.
CentreFreq(band) ==
    IF band = 0 THEN afCenterFreq48e3(1) \div 4 ELSE afCenterFreq48e3(band)
\* Cutoffs array2sh_setMaxFreq is called with: at DC, at the centre of band
\* 1 and above every band when the parameters are explored ("par"), the
\* stored value otherwise.
MaxFreqArgs(cur, s) ==
    IF s = "par" THEN {0, afCenterFreq48e3(1), afCenterFreq48e3(HYBRID_BANDS)}
    ELSE {cur}
\* What malloc leaves in a field that array2sh_create does not write.
Indeterminate == -1
\* powf(10.0f, dB/20.0f): the linear gain of dB decibels.
Linear(dB) == [dB |-> dB]

VARIABLES
    apple,                    \* TRUE: the build that defines __APPLE__
    sched,                    \* "conc", "busy": threads interleave; "seq", "par": calls do not overlap
    reinitTFTFLAG, reinitSHTmatrixFLAG, recalcEvalFLAG,
    order, new_order, nSH, new_nSH, Q, newQ,
    chOrdering, norm,
    enableDiffEQpastAliasing,
    arrayPreset,              \* array geometry, as selected by array2sh_initArray
    r, R, regPar, c, gain_dB, \* clamped parameters
    maxFreq,                  \* cutoff of the frequency gate
    freqVector,               \* band centre frequencies, indeterminate until array2sh_init
    arrayType, weightType, filterType,
    sensorCoords_rad, sensorCoords_deg,   \* direction of sensor 0
    evalReady,
    fresh,                    \* a recalculation completed and no array2sh_getEvalReady call was made since
    W,                        \* what the encoding matrix was computed for
    pc,                       \* position of each thread
    calls,                    \* per thread: calls started so far
    c_arg,                    \* argument of the running setter
    c_old,                    \* order, chOrdering and norm when the setter was called
    rlog,                     \* per thread: events of its running reconciliation
    nInputs, nOutputs, nSamples, isPlaying,   \* arguments of the running process call
    inputFrameTD,             \* working-buffer channels the running call has written
    SHframeTF,                \* the SH frame as the running call has left it
    STFTOutputFrameTF,        \* per band, the coefficients handed to the inverse transform
    l_chOrdering, l_norm, l_Q, l_order, l_nSH,   \* locals of process
    l_gain_lin, l_maxFreq,
    outputs,                  \* the host's output buffers of the running call
    oob,                      \* the call wrote outside the host's buffers
    path,                     \* "none", "signal" or "silence"
    nzAtCall,                 \* some flag was non-zero when process was called
    force3D,                  \* TRUE: the panner build that defines FORCE_3D_LAYOUT
    nLoudpkrs,
    loudpkrs_dirs_deg,        \* elevation of each loudspeaker, in degrees
    hull3D,                   \* the layout is one generateVBAPgainTable3D can triangulate
    output_nDims,
    vbap_gtable,              \* "NULL", or the kind of table it points to
    p_pc,                     \* position of the innermost panner_initGainTables call
    p_depth                   \* calls of panner_initGainTables below the innermost one

flags == <<reinitTFTFLAG, reinitSHTmatrixFLAG, recalcEvalFLAG>>
active == <<order, nSH, Q>>
staged == <<new_order, new_nSH, newQ>>
format == <<chOrdering, norm>>
latch == <<evalReady, fresh>>
params == <<r, R, regPar, c, gain_dB, arrayType, weightType, filterType,
            sensorCoords_rad, sensorCoords_deg>>
bands == <<maxFreq, freqVector>>
call == <<nInputs, nOutputs, nSamples, isPlaying>>
work == <<inputFrameTD, SHframeTF, STFTOutputFrameTF>>
locals == <<l_chOrdering, l_norm, l_Q, l_order, l_nSH, l_gain_lin, l_maxFreq>>
ghost == <<nzAtCall>>
pan == <<force3D, nLoudpkrs, loudpkrs_dirs_deg, hull3D, output_nDims,
         vbap_gtable, p_pc, p_depth>>
vars == <<pan, apple, sched, flags, active, staged, format, enableDiffEQpastAliasing,
          arrayPreset, params, bands, latch, W, pc, calls, c_arg, c_old, rlog, call, locals, work,
          outputs,
          oob, path, ghost>>

AnyFlag == reinitTFTFLAG # 0 \/ reinitSHTmatrixFLAG # 0 \/ recalcEvalFLAG # 0

NoW == [order |-> 0, nSH |-> 0, Q |-> 0, preset |-> "none", diffEQ |-> 0]

NoOld == [order |-> 0, chOrdering |-> "none", norm |-> "none", newQ |-> 0,
          diffEQ |-> 0, fresh |-> FALSE]
Old == [order |-> order, chOrdering |-> chOrdering, norm |-> norm,
        newQ |-> newQ, diffEQ |-> enableDiffEQpastAliasing, fresh |-> fresh]

(* array2sh_create *)
Create ==
    /\ reinitTFTFLAG = 1 /\ reinitSHTmatrixFLAG = 1 /\ recalcEvalFLAG = 1
    /\ order = ENCODING_ORDER_FIRST /\ new_order = order
    /\ nSH = NSH(order) /\ new_nSH = NSH(order)
    /\ arrayPreset = "DEFAULT"
    /\ r = PresetR("DEFAULT") /\ R = PresetR("DEFAULT")
    /\ arrayType = PresetArrayType("DEFAULT")
    /\ weightType = PresetWeightType("DEFAULT")
    /\ sensorCoords_rad = PresetCoords("DEFAULT")
    /\ sensorCoords_deg = PresetCoords("DEFAULT")
    /\ filterType = "TIKHONOV"
    /\ regPar = 15
    /\ c = 343
    /\ gain_dB = 0
    /\ maxFreq = 20
    /\ freqVector = [band \in Bands |-> Indeterminate]
    /\ Q = PresetQ("DEFAULT") /\ newQ = Q
    /\ chOrdering = CH_ACN /\ norm = NORM_SN3D
    /\ enableDiffEQpastAliasing = 1
    /\ evalReady = 0
    /\ fresh = FALSE
    /\ W = NoW

\* panner_create, as far as the gain tables are concerned: a horizontal
\* layout and no table yet.
NoPanner ==
    /\ force3D = FALSE
    /\ nLoudpkrs = MaxLoudpkrs
    /\ loudpkrs_dirs_deg = [i \in 0..(MaxLoudpkrs - 1) |-> 0]
    /\ hull3D = FALSE
    /\ output_nDims = 2
    /\ vbap_gtable = "NULL"
    /\ p_pc = "idle"
    /\ p_depth = 0

NoCall ==
    /\ pc = [t \in Threads |-> "idle"]
    /\ calls = [t \in Threads |-> 0]
    /\ c_arg = 0
    /\ c_old = NoOld
    /\ rlog = [t \in Threads |-> <<>>]
    /\ nInputs = 0 /\ nOutputs = 0 /\ nSamples = 0 /\ isPlaying = 0
    /\ inputFrameTD = <<>> /\ SHframeTF = <<>> /\ STFTOutputFrameTF = <<>>
    /\ l_chOrdering = CH_ACN /\ l_norm = NORM_N3D
    /\ l_Q = 0 /\ l_order = 0 /\ l_nSH = 0
    /\ l_gain_lin = Linear(0) /\ l_maxFreq = 0
    /\ outputs = <<>>
    /\ oob = FALSE
    /\ path = "none"
    /\ nzAtCall = FALSE

Init ==
    /\ apple \in BOOLEAN
    /\ sched = "conc"
    /\ Create
    /\ NoCall
    /\ NoPanner

InitSeq ==
    /\ apple \in BOOLEAN
    /\ sched = "seq"
    /\ Create
    /\ NoCall
    /\ NoPanner

\* Calls that do not overlap, with the parameter setters called with values
\* below, inside and above their limits.
InitPar ==
    /\ apple \in BOOLEAN
    /\ sched = "par"
    /\ Create
    /\ NoCall
    /\ NoPanner

\* Interleaved threads, two calls of the control thread, and a host that
\* plays into MaxOutputs channels.
InitBusy ==
    /\ apple \in BOOLEAN
    /\ sched = "busy"
    /\ Create
    /\ NoCall
    /\ NoPanner

\* A call may start when the threads interleave freely, or when the other
\* thread is between calls.
MaxCalls(t) ==
    IF t = "aud" THEN MaxAudCalls
    ELSE IF sched = "seq" THEN MaxSeqCtlCalls
    ELSE IF sched = "busy" THEN MaxBusyCtlCalls
    ELSE IF sched = "par" THEN MaxParCtlCalls ELSE MaxCtlCalls
MayStart(t) ==
    /\ pc[t] = "idle"
    /\ sched \in {"seq", "par"} => \A u \in Threads : pc[u] = "idle"
    /\ calls[t] < MaxCalls(t)
    /\ calls' = [calls EXCEPT ![t] = @ + 1]

Goto(t, l) == pc' = [pc EXCEPT ![t] = l]
Log(t, e) == rlog' = [rlog EXCEPT ![t] = Append(@, e)]

\* What no step of the encoder changes: its build, the way its calls are
\* scheduled, and the panner instance.
build == <<apple, sched, pan>>
config == <<format, enableDiffEQpastAliasing, arrayPreset, params, bands>>
audio == <<call, locals, work, outputs, oob, path, nzAtCall>>

(* ------------------------- reconciliation ----------------------------- *)
(* array2sh_checkReInit, and the same three-line blocks inlined at the     *)
(* start of array2sh_process in the build without __APPLE__.  Thread t is  *)
(* the thread that runs it.                                                *)

\* An inline reconciliation that runs the diagnostics block as well.
AfterSHT_diagnostics(t) == "eval_chk"

\* Where a thread continues after the encoding-matrix block: the inline
\* reconciliation of array2sh_process has no diagnostics block.
AfterSHT(t) == IF t = "ctl" \/ apple THEN "eval_chk" ELSE "gate"
\* Where a thread continues after array2sh_checkReInit returns.
AfterReInit(t) == IF t = "ctl" THEN "idle" ELSE "gate"

Leave(t, l) ==
    /\ Goto(t, l)
    /\ rlog' = [rlog EXCEPT ![t] = IF l \in {"idle", "gate"} THEN <<>> ELSE @]

\* if (pData->reinitTFTFLAG == 1) {
\* The flags are plain ints: the test and the write that follows it are two
\* accesses, and the other thread may run between them.
CheckTFT(t) ==
    /\ pc[t] = "tft_chk"
    /\ Goto(t, IF reinitTFTFLAG = 1 THEN "tft_mark" ELSE "sht_chk")
    /\ UNCHANGED <<build, flags, active, staged, config, latch, W, c_arg, c_old,
                   rlog, audio>>
    /\ UNCHANGED calls

\*     pData->reinitTFTFLAG = 2;
MarkTFT(t) ==
    /\ pc[t] = "tft_mark"
    /\ reinitTFTFLAG' = 2
    /\ Goto(t, "tft_init")
    /\ Log(t, "tft_begin")
    /\ UNCHANGED <<build, reinitSHTmatrixFLAG, recalcEvalFLAG, active, staged,
                   config, latch, W, c_arg, c_old, audio>>
    /\ UNCHANGED calls

\* array2sh_initTFT: reshapes the transform for the staged channel counts
\* and commits them.
array2sh_initTFT(t) ==
    /\ pc[t] = "tft_init"
    /\ order' = new_order
    /\ nSH' = new_nSH
    /\ Q' = newQ
    /\ Goto(t, "tft_clr")
    /\ UNCHANGED <<build, flags, staged, config, latch, W, c_arg, c_old, rlog, audio>>
    /\ UNCHANGED calls

\* The block without its closing write of 0.
ClearTFT_missing(t) ==
    /\ pc[t] = "tft_clr"
    /\ Goto(t, "sht_chk")
    /\ UNCHANGED <<build, flags, active, staged, config, latch, W, c_arg,
                   c_old, rlog, audio>>
    /\ UNCHANGED calls

\* pData->reinitTFTFLAG = 0; }
ClearTFT(t) ==
    /\ pc[t] = "tft_clr"
    /\ reinitTFTFLAG' = 0
    /\ Goto(t, "sht_chk")
    /\ Log(t, "tft_end")
    /\ UNCHANGED <<build, reinitSHTmatrixFLAG, recalcEvalFLAG, active, staged,
                   config, latch, W, c_arg, c_old, audio>>
    /\ UNCHANGED calls

\* if (pData->reinitSHTmatrixFLAG == 1) {
CheckSHT(t) ==
    /\ pc[t] = "sht_chk"
    /\ IF reinitSHTmatrixFLAG = 1
       THEN /\ Goto(t, "sht_mark")
            /\ UNCHANGED rlog
       ELSE Leave(t, AfterSHT(t))
    /\ UNCHANGED <<build, flags, active, staged, config, latch, W, c_arg, c_old,
                   audio>>
    /\ UNCHANGED calls

\*     pData->reinitSHTmatrixFLAG = 2;
MarkSHT(t) ==
    /\ pc[t] = "sht_mark"
    /\ reinitSHTmatrixFLAG' = 2
    /\ Goto(t, "sht_calc")
    /\ Log(t, "sht_begin")
    /\ UNCHANGED <<build, reinitTFTFLAG, recalcEvalFLAG, active, staged,
                   config, latch, W, c_arg, c_old, audio>>
    /\ UNCHANGED calls

\* array2sh_calculate_sht_matrix and array2sh_calculate_mag_curves: the
\* matrix is computed for the configuration that is current at this step.
array2sh_calculate_sht_matrix(t) ==
    /\ pc[t] = "sht_calc"
    /\ W' = [order |-> order, nSH |-> nSH, Q |-> Q, preset |-> arrayPreset,
             diffEQ |-> enableDiffEQpastAliasing]
    /\ Goto(t, "sht_clr")
    /\ UNCHANGED <<build, flags, active, staged, config, latch, c_arg,
                   c_old, rlog, audio>>
    /\ UNCHANGED calls

\* pData->reinitSHTmatrixFLAG = 0; }
ClearSHT(t) ==
    /\ pc[t] = "sht_clr"
    /\ reinitSHTmatrixFLAG' = 0
    /\ Goto(t, AfterSHT(t))
    /\ rlog' = [rlog EXCEPT ![t] = IF AfterSHT(t) = "gate" THEN <<>>
                                   ELSE Append(@, "sht_end")]
    /\ UNCHANGED <<build, reinitTFTFLAG, recalcEvalFLAG, active, staged,
                   config, latch, W, c_arg, c_old, audio>>
    /\ UNCHANGED calls

\* if (pData->recalcEvalFLAG == 1) {
CheckEval(t) ==
    /\ pc[t] = "eval_chk"
    /\ IF recalcEvalFLAG = 1
       THEN /\ Goto(t, "eval_mark")
            /\ UNCHANGED rlog
       ELSE Leave(t, AfterReInit(t))
    /\ UNCHANGED <<build, flags, active, staged, config, latch, W, c_arg, c_old,
                   audio>>
    /\ UNCHANGED calls

\*     pData->recalcEvalFLAG = 2;
MarkEval(t) ==
    /\ pc[t] = "eval_mark"
    /\ recalcEvalFLAG' = 2
    /\ Goto(t, "eval_run")
    /\ Log(t, "eval_begin")
    /\ UNCHANGED <<build, reinitTFTFLAG, reinitSHTmatrixFLAG, active, staged,
                   config, latch, W, c_arg, c_old, audio>>
    /\ UNCHANGED calls

\* array2sh_evaluateSHTfilters: recomputes the diagnostics and sets the
\* evaluation-ready latch.
array2sh_evaluateSHTfilters(t) ==
    /\ pc[t] = "eval_run"
    /\ evalReady' = 1
    /\ Goto(t, "eval_clr")
    /\ UNCHANGED <<build, flags, active, staged, config, fresh, W, c_arg, c_old,
                   rlog, audio>>
    /\ UNCHANGED calls

\* pData->recalcEvalFLAG = 0; }
ClearEval(t) ==
    /\ pc[t] = "eval_clr"
    /\ recalcEvalFLAG' = 0
    /\ fresh' = TRUE
    /\ Leave(t, AfterReInit(t))
    /\ UNCHANGED <<build, reinitTFTFLAG, reinitSHTmatrixFLAG, active, staged,
                   config, evalReady, W, c_arg, c_old, audio>>
    /\ UNCHANGED calls

\* array2sh_init on the control thread, called with a sample rate of 48 kHz:
\* fills pData->freqVector with the band centre frequencies, replaces the
\* entry of band 0 by a quarter of band 1's, then calls array2sh_checkReInit.
array2sh_init ==
    /\ MayStart("ctl")
    /\ freqVector' = [band \in Bands |-> CentreFreq(band)]
    /\ Goto("ctl", "tft_chk")
    /\ UNCHANGED <<build, flags, active, staged, format,
                   enableDiffEQpastAliasing, arrayPreset, params, maxFreq, latch,
                   W, c_arg, c_old, rlog, audio>>

(* ------------------------------ setters ------------------------------- *)
(* Control thread.  A setter is entered by the action that carries its     *)
(* name, which also performs its first statement.                          *)

CtlAt(l) == pc["ctl"] = l
CtlRest == <<build, latch, W, rlog, audio>>
CtlKeep == <<c_arg, c_old, CtlRest>>

\* array2sh_setEncodingOrder: pData->new_order = newOrder;
array2sh_setEncodingOrder ==
    /\ MayStart("ctl")
    /\ \E newOrder \in Orders :
          /\ new_order' = newOrder
          /\ c_arg' = newOrder
    /\ c_old' = Old
    /\ Goto("ctl", "eo_nSH")
    /\ UNCHANGED <<flags, active, new_nSH, newQ, config, CtlRest>>

\* pData->new_nSH = (newOrder+1)*(newOrder+1);
SetEncodingOrder_nSH ==
    /\ CtlAt("eo_nSH")
    /\ new_nSH' = (c_arg + 1) * (c_arg + 1)
    /\ Goto("ctl", "eo_tft")
    /\ UNCHANGED <<flags, active, new_order, newQ, config, CtlKeep>>
    /\ UNCHANGED calls

\* pData->reinitTFTFLAG = 1;
SetEncodingOrder_TFT ==
    /\ CtlAt("eo_tft")
    /\ reinitTFTFLAG' = 1
    /\ Goto("ctl", "eo_sht")
    /\ UNCHANGED <<reinitSHTmatrixFLAG, recalcEvalFLAG, active, staged, config,
                   CtlKeep>>
    /\ UNCHANGED calls

\* pData->reinitSHTmatrixFLAG = 1;
SetEncodingOrder_SHT ==
    /\ CtlAt("eo_sht")
    /\ reinitSHTmatrixFLAG' = 1
    /\ Goto("ctl", "eo_chord")
    /\ UNCHANGED <<reinitTFTFLAG, recalcEvalFLAG, active, staged, config,
                   CtlKeep>>
    /\ UNCHANGED calls

\* if(pData->order!=ENCODING_ORDER_FIRST && pData->chOrdering == CH_FUMA)
\*     pData->chOrdering = CH_ACN;
SetEncodingOrder_chOrdering ==
    /\ CtlAt("eo_chord")
    /\ chOrdering' = IF order # ENCODING_ORDER_FIRST /\ chOrdering = CH_FUMA
                     THEN CH_ACN ELSE chOrdering
    /\ Goto("ctl", "eo_norm")
    /\ UNCHANGED <<flags, active, staged, norm, enableDiffEQpastAliasing,
                   arrayPreset, params, bands, CtlKeep>>
    /\ UNCHANGED calls

\* if(pData->order!=ENCODING_ORDER_FIRST && pData->norm == NORM_FUMA)
\*     pData->norm = NORM_SN3D;
SetEncodingOrder_norm ==
    /\ CtlAt("eo_norm")
    /\ norm' = IF order # ENCODING_ORDER_FIRST /\ norm = NORM_FUMA
               THEN NORM_SN3D ELSE norm
    /\ Goto("ctl", "eo_ret")
    /\ UNCHANGED <<flags, active, staged, chOrdering, enableDiffEQpastAliasing,
                   arrayPreset, params, bands, CtlKeep>>
    /\ UNCHANGED calls

\* array2sh_refreshSettings: pData->reinitTFTFLAG = 1;
array2sh_refreshSettings ==
    /\ MayStart("ctl")
    /\ reinitTFTFLAG' = 1
    /\ Goto("ctl", "rs_sht")
    /\ UNCHANGED <<reinitSHTmatrixFLAG, recalcEvalFLAG, active, staged, config,
                   CtlKeep>>

\* pData->reinitSHTmatrixFLAG = 1;
RefreshSettings_SHT ==
    /\ CtlAt("rs_sht")
    /\ reinitSHTmatrixFLAG' = 1
    /\ Goto("ctl", "rs_ret")
    /\ UNCHANGED <<reinitTFTFLAG, recalcEvalFLAG, active, staged, config,
                   CtlKeep>>
    /\ UNCHANGED calls

\* array2sh_evaluateFilters: pData->recalcEvalFLAG = 1;
array2sh_evaluateFilters ==
    /\ MayStart("ctl")
    /\ recalcEvalFLAG' = 1
    /\ Goto("ctl", "ev_ret")
    /\ UNCHANGED <<reinitTFTFLAG, reinitSHTmatrixFLAG, active, staged, config,
                   CtlKeep>>

\* array2sh_setDiffEQpastAliasing:
\* if(pData->enableDiffEQpastAliasing != newState){
\*     pData->enableDiffEQpastAliasing = newState;
array2sh_setDiffEQpastAliasing ==
    /\ MayStart("ctl")
    /\ \E newState \in {0, 1} :
          IF enableDiffEQpastAliasing # newState
          THEN /\ enableDiffEQpastAliasing' = newState
               /\ Goto("ctl", "de_sht")
          ELSE /\ Goto("ctl", "de_ret")
               /\ UNCHANGED enableDiffEQpastAliasing
    /\ c_old' = Old
    /\ UNCHANGED <<flags, active, staged, format, arrayPreset, params, bands, c_arg,
                   CtlRest>>

\*     pData->reinitSHTmatrixFLAG = 1; }
SetDiffEQpastAliasing_SHT ==
    /\ CtlAt("de_sht")
    /\ reinitSHTmatrixFLAG' = 1
    /\ Goto("ctl", "de_ret")
    /\ UNCHANGED <<reinitTFTFLAG, recalcEvalFLAG, active, staged, config,
                   CtlKeep>>
    /\ UNCHANGED calls

\* array2sh_setPreset: array2sh_initArray(arraySpecs, preset,
\* &(pData->new_order), 0) loads the preset's geometry, order and sensor
\* count into the staged fields.
array2sh_setPreset ==
    /\ MayStart("ctl")
    /\ \E preset \in Presets :
          /\ arrayPreset' = preset
          /\ new_order' = PresetOrder(preset)
          /\ newQ' = PresetQ(preset)
          /\ r' = PresetR(preset) /\ R' = PresetR(preset)
          /\ arrayType' = PresetArrayType(preset)
          /\ weightType' = PresetWeightType(preset)
          /\ sensorCoords_rad' = PresetCoords(preset)
          /\ sensorCoords_deg' = PresetCoords(preset)
    /\ c' = 343
    /\ Goto("ctl", "pr_nSH")
    /\ UNCHANGED <<flags, active, new_nSH, format, enableDiffEQpastAliasing,
                   regPar, gain_dB, filterType, bands, CtlKeep>>

\* pData->new_nSH = (pData->new_order+1)*(pData->new_order+1);
SetPreset_nSH ==
    /\ CtlAt("pr_nSH")
    /\ new_nSH' = (new_order + 1) * (new_order + 1)
    /\ Goto("ctl", "pr_tft")
    /\ UNCHANGED <<flags, active, new_order, newQ, config, CtlKeep>>
    /\ UNCHANGED calls

\* pData->reinitTFTFLAG = 1;
SetPreset_TFT ==
    /\ CtlAt("pr_tft")
    /\ reinitTFTFLAG' = 1
    /\ Goto("ctl", "pr_sht")
    /\ UNCHANGED <<reinitSHTmatrixFLAG, recalcEvalFLAG, active, staged, config,
                   CtlKeep>>
    /\ UNCHANGED calls

\* pData->reinitSHTmatrixFLAG = 1;
SetPreset_SHT ==
    /\ CtlAt("pr_sht")
    /\ reinitSHTmatrixFLAG' = 1
    /\ Goto("ctl", "pr_ret")
    /\ UNCHANGED <<reinitTFTFLAG, recalcEvalFLAG, active, staged, config,
                   CtlKeep>>
    /\ UNCHANGED calls

\* array2sh_setNumSensors: if (newQ < pData->nSH){
array2sh_setNumSensors ==
    /\ MayStart("ctl")
    /\ \E q \in SensorCounts :
          /\ c_arg' = q
          /\ Goto("ctl", IF q < nSH THEN "ns_order" ELSE "ns_newQ")
    /\ c_old' = Old
    /\ UNCHANGED <<flags, active, staged, config, CtlRest>>

\*     pData->new_order = 1;
SetNumSensors_order ==
    /\ CtlAt("ns_order")
    /\ new_order' = 1
    /\ Goto("ctl", "ns_nSH")
    /\ UNCHANGED <<flags, active, new_nSH, newQ, config, CtlKeep>>
    /\ UNCHANGED calls

\*     pData->new_nSH = (pData->new_order+1)*(pData->new_order+1); }
SetNumSensors_nSH ==
    /\ CtlAt("ns_nSH")
    /\ new_nSH' = (new_order + 1) * (new_order + 1)
    /\ Goto("ctl", "ns_newQ")
    /\ UNCHANGED <<flags, active, new_order, newQ, config, CtlKeep>>
    /\ UNCHANGED calls

\* A setter that stores the sensor count in the active field as well.
SetNumSensors_newQ_active ==
    /\ CtlAt("ns_newQ")
    /\ newQ' = c_arg
    /\ Q' = c_arg
    /\ Goto("ctl", "ns_tft")
    /\ UNCHANGED <<flags, order, nSH, new_order, new_nSH, config, CtlKeep>>
    /\ UNCHANGED calls

\* arraySpecs->newQ = newQ;
SetNumSensors_newQ ==
    /\ CtlAt("ns_newQ")
    /\ newQ' = c_arg
    /\ Goto("ctl", "ns_tft")
    /\ UNCHANGED <<flags, active, new_order, new_nSH, config, CtlKeep>>
    /\ UNCHANGED calls

\* pData->reinitTFTFLAG = arraySpecs->Q != arraySpecs->newQ ? 1 : 0;
SetNumSensors_TFT ==
    /\ CtlAt("ns_tft")
    /\ reinitTFTFLAG' = IF Q # newQ THEN 1 ELSE 0
    /\ Goto("ctl", "ns_sht")
    /\ UNCHANGED <<reinitSHTmatrixFLAG, recalcEvalFLAG, active, staged, config,
                   CtlKeep>>
    /\ UNCHANGED calls

\* pData->reinitSHTmatrixFLAG = arraySpecs->Q != arraySpecs->newQ ? 1 : 0;
SetNumSensors_SHT ==
    /\ CtlAt("ns_sht")
    /\ reinitSHTmatrixFLAG' = IF Q # newQ THEN 1 ELSE 0
    /\ Goto("ctl", "ns_ret")
    /\ UNCHANGED <<reinitTFTFLAG, recalcEvalFLAG, active, staged, config,
                   CtlKeep>>
    /\ UNCHANGED calls

\* What array2sh_setChOrder stores for a request of newOrder.
ChOrderAfter(newOrder, cur, ord) ==
    IF newOrder # CH_FUMA \/ ord = ENCODING_ORDER_FIRST THEN newOrder ELSE cur

\* array2sh_setChOrder
array2sh_setChOrder ==
    /\ MayStart("ctl")
    /\ \E newOrder \in CH_ORDER :
          /\ chOrdering' = ChOrderAfter(newOrder, chOrdering, order)
          /\ c_arg' = newOrder
    /\ c_old' = Old
    /\ Goto("ctl", "co_ret")
    /\ UNCHANGED <<flags, active, staged, norm, enableDiffEQpastAliasing,
                   arrayPreset, params, bands, CtlRest>>

\* A setter that downgrades a refused request to SN3D.
NormTypeAfter_downgrade(newType, cur, ord) ==
    IF newType # NORM_FUMA \/ ord = ENCODING_ORDER_FIRST THEN newType
    ELSE NORM_SN3D

\* What array2sh_setNormType stores for a request of newType.
NormTypeAfter(newType, cur, ord) ==
    IF newType # NORM_FUMA \/ ord = ENCODING_ORDER_FIRST THEN newType ELSE cur

\* array2sh_setNormType
array2sh_setNormType ==
    /\ MayStart("ctl")
    /\ \E newType \in NORM_TYPES :
          /\ norm' = NormTypeAfter(newType, norm, order)
          /\ c_arg' = newType
    /\ c_old' = Old
    /\ Goto("ctl", "nt_ret")
    /\ UNCHANGED <<flags, active, staged, chOrdering, enableDiffEQpastAliasing,
                   arrayPreset, params, bands, CtlRest>>

(* Setters of the array description and of the filter design.  Each stores  *)
(* its value and writes pData->reinitSHTmatrixFLAG = 1; the stored value is *)
(* read by the matrix computation only, which is one step here, so the two  *)
(* writes are taken together.                                               *)
SetterKeep == <<reinitTFTFLAG, recalcEvalFLAG, active, staged, format,
                enableDiffEQpastAliasing, arrayPreset, bands, c_old, CtlRest>>

\* array2sh_setSensorAzi_rad
array2sh_setSensorAzi_rad ==
    /\ MayStart("ctl")
    /\ \E newAzi_rad \in QuarterTurns(sched) :
          /\ sensorCoords_rad' = [sensorCoords_rad EXCEPT !.azi = newAzi_rad]
          /\ sensorCoords_deg' = [sensorCoords_deg EXCEPT !.azi = RadToDeg(newAzi_rad)]
          /\ c_arg' = newAzi_rad
    /\ reinitSHTmatrixFLAG' = 1
    /\ Goto("ctl", "geo_ret")
    /\ UNCHANGED <<r, R, regPar, c, gain_dB, arrayType, weightType, filterType,
                   SetterKeep>>

\* array2sh_setSensorElev_rad
array2sh_setSensorElev_rad ==
    /\ MayStart("ctl")
    /\ \E newElev_rad \in QuarterTurns(sched) :
          /\ sensorCoords_rad' = [sensorCoords_rad EXCEPT !.elev = newElev_rad]
          /\ sensorCoords_deg' = [sensorCoords_deg EXCEPT !.elev = RadToDeg(newElev_rad)]
          /\ c_arg' = newElev_rad
    /\ reinitSHTmatrixFLAG' = 1
    /\ Goto("ctl", "geo_ret")
    /\ UNCHANGED <<r, R, regPar, c, gain_dB, arrayType, weightType, filterType,
                   SetterKeep>>

\* array2sh_setSensorAzi_deg
array2sh_setSensorAzi_deg ==
    /\ MayStart("ctl")
    /\ \E a \in QuarterTurns(sched) :
          LET newAzi_deg == RadToDeg(a) IN
          /\ sensorCoords_rad' = [sensorCoords_rad EXCEPT !.azi = DegToRad(newAzi_deg)]
          /\ sensorCoords_deg' = [sensorCoords_deg EXCEPT !.azi = newAzi_deg]
          /\ c_arg' = newAzi_deg
    /\ reinitSHTmatrixFLAG' = 1
    /\ Goto("ctl", "geo_ret")
    /\ UNCHANGED <<r, R, regPar, c, gain_dB, arrayType, weightType, filterType,
                   SetterKeep>>

\* array2sh_setSensorElev_deg
array2sh_setSensorElev_deg ==
    /\ MayStart("ctl")
    /\ \E a \in QuarterTurns(sched) :
          LET newElev_deg == RadToDeg(a) IN
          /\ sensorCoords_rad' = [sensorCoords_rad EXCEPT !.elev = DegToRad(newElev_deg)]
          /\ sensorCoords_deg' = [sensorCoords_deg EXCEPT !.elev = newElev_deg]
          /\ c_arg' = newElev_deg
    /\ reinitSHTmatrixFLAG' = 1
    /\ Goto("ctl", "geo_ret")
    /\ UNCHANGED <<r, R, regPar, c, gain_dB, arrayType, weightType, filterType,
                   SetterKeep>>

\* A setter that stores its argument as it comes.
array2sh_setr_unclamped ==
    /\ MayStart("ctl")
    /\ \E newr \in ClampArgs(ARRAY2SH_ARRAY_RADIUS_MIN_VALUE,
                             ARRAY2SH_ARRAY_RADIUS_MAX_VALUE, r, sched) :
          /\ r' = newr
          /\ c_arg' = newr
    /\ reinitSHTmatrixFLAG' = 1
    /\ Goto("ctl", "r_ret")
    /\ UNCHANGED <<R, regPar, c, gain_dB, arrayType, weightType, filterType,
                   sensorCoords_rad, sensorCoords_deg, SetterKeep>>

\* array2sh_setr
array2sh_setr ==
    /\ MayStart("ctl")
    /\ \E newr \in ClampArgs(ARRAY2SH_ARRAY_RADIUS_MIN_VALUE,
                             ARRAY2SH_ARRAY_RADIUS_MAX_VALUE, r, sched) :
          /\ r' = CLAMP(newr, ARRAY2SH_ARRAY_RADIUS_MIN_VALUE,
                        ARRAY2SH_ARRAY_RADIUS_MAX_VALUE)
          /\ c_arg' = newr
    /\ reinitSHTmatrixFLAG' = 1
    /\ Goto("ctl", "r_ret")
    /\ UNCHANGED <<R, regPar, c, gain_dB, arrayType, weightType, filterType,
                   sensorCoords_rad, sensorCoords_deg, SetterKeep>>

\* array2sh_setR
array2sh_setR ==
    /\ MayStart("ctl")
    /\ \E newR \in ClampArgs(ARRAY2SH_BAFFLE_RADIUS_MIN_VALUE,
                             ARRAY2SH_BAFFLE_RADIUS_MAX_VALUE, R, sched) :
          /\ R' = CLAMP(newR, ARRAY2SH_BAFFLE_RADIUS_MIN_VALUE,
                        ARRAY2SH_BAFFLE_RADIUS_MAX_VALUE)
          /\ c_arg' = newR
    /\ reinitSHTmatrixFLAG' = 1
    /\ Goto("ctl", "R_ret")
    /\ UNCHANGED <<r, regPar, c, gain_dB, arrayType, weightType, filterType,
                   sensorCoords_rad, sensorCoords_deg, SetterKeep>>

\* array2sh_setArrayType
array2sh_setArrayType ==
    /\ MayStart("ctl")
    /\ \E newType \in ARRAY_TYPES(sched) :
          /\ arrayType' = newType
          /\ c_arg' = newType
    /\ reinitSHTmatrixFLAG' = 1
    /\ Goto("ctl", "ty_ret")
    /\ UNCHANGED <<r, R, regPar, c, gain_dB, weightType, filterType,
                   sensorCoords_rad, sensorCoords_deg, SetterKeep>>

\* array2sh_setWeightType
array2sh_setWeightType ==
    /\ MayStart("ctl")
    /\ \E newType \in WEIGHT_TYPES(sched) :
          /\ weightType' = newType
          /\ c_arg' = newType
    /\ reinitSHTmatrixFLAG' = 1
    /\ Goto("ctl", "ty_ret")
    /\ UNCHANGED <<r, R, regPar, c, gain_dB, arrayType, filterType,
                   sensorCoords_rad, sensorCoords_deg, SetterKeep>>

\* array2sh_setFilterType
array2sh_setFilterType ==
    /\ MayStart("ctl")
    /\ \E newType \in FILTER_TYPES(sched) :
          /\ filterType' = newType
          /\ c_arg' = newType
    /\ reinitSHTmatrixFLAG' = 1
    /\ Goto("ctl", "ty_ret")
    /\ UNCHANGED <<r, R, regPar, c, gain_dB, arrayType, weightType,
                   sensorCoords_rad, sensorCoords_deg, SetterKeep>>

\* array2sh_setRegPar
array2sh_setRegPar ==
    /\ MayStart("ctl")
    /\ \E newVal \in ClampArgs(ARRAY2SH_MAX_GAIN_MIN_VALUE,
                               ARRAY2SH_MAX_GAIN_MAX_VALUE, regPar, sched) :
          /\ regPar' = CLAMP(newVal, ARRAY2SH_MAX_GAIN_MIN_VALUE,
                             ARRAY2SH_MAX_GAIN_MAX_VALUE)
          /\ c_arg' = newVal
    /\ reinitSHTmatrixFLAG' = 1
    /\ Goto("ctl", "rp_ret")
    /\ UNCHANGED <<r, R, c, gain_dB, arrayType, weightType, filterType,
                   sensorCoords_rad, sensorCoords_deg, SetterKeep>>

\* array2sh_setc
array2sh_setc ==
    /\ MayStart("ctl")
    /\ \E newc \in ClampArgs(ARRAY2SH_SPEED_OF_SOUND_MIN_VALUE,
                             ARRAY2SH_SPEED_OF_SOUND_MAX_VALUE, c, sched) :
          /\ c' = CLAMP(newc, ARRAY2SH_SPEED_OF_SOUND_MIN_VALUE,
                        ARRAY2SH_SPEED_OF_SOUND_MAX_VALUE)
          /\ c_arg' = newc
    /\ reinitSHTmatrixFLAG' = 1
    /\ Goto("ctl", "c_ret")
    /\ UNCHANGED <<r, R, regPar, gain_dB, arrayType, weightType, filterType,
                   sensorCoords_rad, sensorCoords_deg, SetterKeep>>

\* array2sh_setGain: stores the clamped post-gain and raises no flag.
array2sh_setGain ==
    /\ MayStart("ctl")
    /\ \E newGain \in ClampArgs(ARRAY2SH_POST_GAIN_MIN_VALUE,
                                ARRAY2SH_POST_GAIN_MAX_VALUE, gain_dB, sched) :
          /\ gain_dB' = CLAMP(newGain, ARRAY2SH_POST_GAIN_MIN_VALUE,
                              ARRAY2SH_POST_GAIN_MAX_VALUE)
          /\ c_arg' = newGain
    /\ Goto("ctl", "g_ret")
    /\ UNCHANGED <<r, R, regPar, c, arrayType, weightType, filterType,
                   sensorCoords_rad, sensorCoords_deg, reinitSHTmatrixFLAG,
                   SetterKeep>>

\* A setter of the cutoff that asks for a new encoding matrix.
array2sh_setMaxFreq_reinit ==
    /\ MayStart("ctl")
    /\ \E newF \in MaxFreqArgs(maxFreq, sched) :
          /\ maxFreq' = newF
          /\ c_arg' = newF
    /\ reinitSHTmatrixFLAG' = 1
    /\ Goto("ctl", "mf_ret")
    /\ UNCHANGED <<reinitTFTFLAG, recalcEvalFLAG, active, staged, format,
                   enableDiffEQpastAliasing, arrayPreset, params, freqVector,
                   c_old, CtlRest>>

\* array2sh_setMaxFreq: pData->maxFreq = newF;
array2sh_setMaxFreq ==
    /\ MayStart("ctl")
    /\ \E newF \in MaxFreqArgs(maxFreq, sched) :
          /\ maxFreq' = newF
          /\ c_arg' = newF
    /\ Goto("ctl", "mf_ret")
    /\ UNCHANGED <<flags, active, staged, format, enableDiffEQpastAliasing,
                   arrayPreset, params, freqVector, c_old, CtlRest>>

(* array2sh_getEvalReady, called by the control thread.                    *)

\* if (pData->evalReady) {
array2sh_getEvalReady ==
    /\ MayStart("ctl")
    /\ Goto("ctl", IF evalReady # 0 THEN "er_clear" ELSE "er_return0")
    /\ c_old' = Old
    /\ fresh' = FALSE
    /\ UNCHANGED <<flags, active, staged, config, c_arg, build, evalReady, W,
                   rlog, audio>>

\*     pData->evalReady = 0; return 1; }
GetEvalReady_clear ==
    /\ CtlAt("er_clear")
    /\ evalReady' = 0
    /\ Goto("ctl", "er_return1")
    /\ UNCHANGED <<flags, active, staged, config, c_arg, c_old, build, fresh, W,
                   rlog, audio>>
    /\ UNCHANGED calls

\* The return of a setter to its caller.
CtlRet == {"eo_ret", "rs_ret", "ev_ret", "de_ret", "pr_ret", "ns_ret",
           "co_ret", "nt_ret", "geo_ret", "r_ret", "R_ret", "ty_ret", "rp_ret",
           "c_ret", "g_ret", "mf_ret", "er_return0", "er_return1"}
Return ==
    /\ pc["ctl"] \in CtlRet
    /\ Goto("ctl", "idle")
    /\ c_arg' = 0
    /\ c_old' = NoOld
    /\ UNCHANGED <<flags, active, staged, config, CtlRest>>
    /\ UNCHANGED calls

(* -------------------------- array2sh_process -------------------------- *)
(* Audio thread.                                                           *)

\* Sample values: silence, whatever the host left in its buffer, or the
\* time-domain signal of SH channel ch divided by sqrt(d) for each d in den.
Zero == [k |-> "zero", ch |-> 0, den |-> <<>>]
Junk == [k |-> "junk", ch |-> 0, den |-> <<>>]
Sig(n) == [k |-> "sh", ch |-> n, den |-> <<>>]
\* v / sqrtf(d)
Div(v, d) == IF v.k = "sh" THEN [v EXCEPT !.den = Append(@, d)] ELSE v

AudAt(l) == pc["aud"] = l
AudRest == <<build, active, staged, config, latch, W, c_arg, c_old>>
AudKeep == <<call, work, outputs, oob, path, nzAtCall>>

\* The call: the host passes its buffers and the block shape.  Both builds
\* start with the reconciliation.
array2sh_process ==
    /\ MayStart("aud")
    /\ nInputs' \in InputCounts(sched)
    /\ nOutputs' \in OutputCounts(sched)
    /\ nSamples' \in BlockSizes(sched)
    /\ isPlaying' \in Playing(sched)
    /\ Offered(nInputs', nOutputs', nSamples', isPlaying')
    /\ outputs' = [ch \in 0..(nOutputs' - 1) |-> [i \in 1..nSamples' |-> Junk]]
    /\ nzAtCall' = AnyFlag
    /\ Goto("aud", "tft_chk")
    /\ UNCHANGED <<flags, AudRest, rlog, locals, work, oob, path>>

\* The gate without its test of recalcEvalFLAG.
Gate_noRecalcEval ==
    /\ AudAt("gate")
    /\ Goto("aud", IF nSamples = FRAME_SIZE THEN "gate_sht" ELSE "silence")
    /\ UNCHANGED <<flags, AudRest, rlog, locals, AudKeep>>
    /\ UNCHANGED calls

\* if ((nSamples == FRAME_SIZE) && !(pData->recalcEvalFLAG) && ...
Gate_recalcEval ==
    /\ AudAt("gate")
    /\ Goto("aud", IF nSamples = FRAME_SIZE /\ recalcEvalFLAG = 0
                   THEN "gate_sht" ELSE "silence")
    /\ UNCHANGED <<flags, AudRest, rlog, locals, AudKeep>>
    /\ UNCHANGED calls

\* ... && !(pData->reinitSHTmatrixFLAG) && ...
Gate_SHT ==
    /\ AudAt("gate_sht")
    /\ Goto("aud", IF reinitSHTmatrixFLAG = 0 THEN "gate_tft" ELSE "silence")
    /\ UNCHANGED <<flags, AudRest, rlog, locals, AudKeep>>
    /\ UNCHANGED calls

\* ... && !(pData->reinitTFTFLAG)) {
Gate_TFT ==
    /\ AudAt("gate_tft")
    /\ Goto("aud", IF reinitTFTFLAG = 0 THEN "prep_chOrdering" ELSE "silence")
    /\ UNCHANGED <<flags, AudRest, rlog, locals, AudKeep>>
    /\ UNCHANGED calls

\* chOrdering = pData->chOrdering;
Prep_chOrdering ==
    /\ AudAt("prep_chOrdering")
    /\ l_chOrdering' = chOrdering
    /\ Goto("aud", "prep_norm")
    /\ UNCHANGED <<flags, AudRest, rlog, l_norm, l_Q, l_order, l_nSH,
                   l_gain_lin, l_maxFreq, AudKeep>>
    /\ UNCHANGED calls

\* norm = pData->norm;
Prep_norm ==
    /\ AudAt("prep_norm")
    /\ l_norm' = norm
    /\ Goto("aud", "prep_gain_lin")
    /\ UNCHANGED <<flags, AudRest, rlog, l_chOrdering, l_Q, l_order, l_nSH,
                   l_gain_lin, l_maxFreq, AudKeep>>
    /\ UNCHANGED calls

\* gain_lin = powf(10.0f, pData->gain_dB/20.0f);
Prep_gain_lin ==
    /\ AudAt("prep_gain_lin")
    /\ l_gain_lin' = Linear(gain_dB)
    /\ Goto("aud", "prep_maxFreq")
    /\ UNCHANGED <<flags, AudRest, rlog, l_chOrdering, l_norm, l_Q, l_order,
                   l_nSH, l_maxFreq, AudKeep>>
    /\ UNCHANGED calls

\* maxFreq = pData->maxFreq;
Prep_maxFreq ==
    /\ AudAt("prep_maxFreq")
    /\ l_maxFreq' = maxFreq
    /\ Goto("aud", "prep_Q")
    /\ UNCHANGED <<flags, AudRest, rlog, l_chOrdering, l_norm, l_Q, l_order,
                   l_nSH, l_gain_lin, AudKeep>>
    /\ UNCHANGED calls

\* Q = arraySpecs->Q;
Prep_Q ==
    /\ AudAt("prep_Q")
    /\ l_Q' = Q
    /\ Goto("aud", "prep_order")
    /\ UNCHANGED <<flags, AudRest, rlog, l_chOrdering, l_norm, l_order, l_nSH,
                   l_gain_lin, l_maxFreq, AudKeep>>
    /\ UNCHANGED calls

\* order = pData->order;
Prep_order ==
    /\ AudAt("prep_order")
    /\ l_order' = order
    /\ Goto("aud", "prep_nSH")
    /\ UNCHANGED <<flags, AudRest, rlog, l_chOrdering, l_norm, l_Q, l_nSH,
                   l_gain_lin, l_maxFreq, AudKeep>>
    /\ UNCHANGED calls

\* nSH = pData->nSH;
Prep_nSH ==
    /\ AudAt("prep_nSH")
    /\ l_nSH' = nSH
    /\ Goto("aud", "signal")
    /\ UNCHANGED <<flags, AudRest, rlog, l_chOrdering, l_norm, l_Q, l_order,
                   l_gain_lin, l_maxFreq, AudKeep>>
    /\ UNCHANGED calls

\* pData->tempHopFrameTD_out[ch] after afSTFTinverse: the inverse transform
\* produces the nSH channels of the SH frame, which is all-zero when the
\* encoder is not playing.
TempHop(ch) ==
    IF ch < l_nSH THEN (IF isPlaying # 0 THEN Sig(ch) ELSE Zero) ELSE Junk

\* A FuMa copy that exchanges channels 1 and 3 and keeps channel 2.
Copied_exchange13(ch, i) ==
    IF l_chOrdering = CH_ACN
    THEN IF ch < MIN(l_nSH, nOutputs) THEN TempHop(ch) ELSE Zero
    ELSE IF nOutputs >= 4 /\ ch < 4
         THEN CASE ch = 0 -> TempHop(0)
                [] ch = 1 -> TempHop(3)
                [] ch = 2 -> TempHop(2)
                [] ch = 3 -> TempHop(1)
         ELSE outputs[ch][i]

\* "copy SH signals to output buffer": sample i of output channel ch.
Copied(ch, i) ==
    IF l_chOrdering = CH_ACN
    THEN IF ch < MIN(l_nSH, nOutputs) THEN TempHop(ch) ELSE Zero
    ELSE IF nOutputs >= 4 /\ ch < 4
         THEN CASE ch = 0 -> TempHop(0)
                [] ch = 2 -> TempHop(1)
                [] ch = 3 -> TempHop(2)
                [] ch = 1 -> TempHop(3)
         ELSE outputs[ch][i]

\* The order band n of channel ch: o[n] <= ch < o[n+1], o[n] = n*n.
Band(ch) == CHOOSE n \in 0..ch : n * n <= ch /\ ch < (n + 1) * (n + 1)

\* "apply normalisation scheme" to sample value v of output channel ch.
Normalised(v, ch) ==
    CASE l_norm = NORM_N3D -> v
      [] l_norm = NORM_SN3D ->
            IF Band(ch) < l_order + 1 THEN Div(v, 2 * Band(ch) + 1) ELSE v
      [] l_norm = NORM_FUMA ->
            IF nOutputs >= 4
            THEN (IF ch = 0 THEN Div(v, 2) ELSE IF ch < 4 THEN Div(v, 3) ELSE v)
            ELSE Zero

\* A sample of input channel i, as the host supplied it.
Inp(i) == [k |-> "in", ch |-> i, den |-> <<>>]

\* "Load time-domain data": the channels of pData->inputFrameTD the two
\* loops write, channel i from inputs[i] for i < nInputs and zero from
\* there up to Q.
InputFrame ==
    [i \in 0..((IF nInputs > l_Q THEN nInputs ELSE l_Q) - 1) |->
        IF i < nInputs THEN Inp(i) ELSE Zero]

\* The SHT step without its else branch.
SHframe_noMemset(ch) ==
    IF isPlaying # 0 /\ ch < l_nSH THEN Sig(ch) ELSE Junk

\* "Apply spherical harmonic transform (SHT)": row ch of pData->SHframeTF.
\* cblas_cgemm writes the first nSH rows; memset clears all of them.
SHframe(ch) ==
    IF isPlaying # 0
    THEN (IF ch < l_nSH THEN Sig(ch) ELSE Junk)
    ELSE Zero

\* gain_lin * pData->SHframeTF[band][ch][t]
Gained(g, v, band) ==
    IF v.k = "sh" THEN [k |-> "coef", ch |-> v.ch, band |-> band, gain |-> g]
    ELSE v

\* The outcomes of pData->freqVector[band] < maxFreq, for every band: one
\* when array2sh_init has filled freqVector, any while it still holds what
\* the allocation left in it.
BelowMaxFreq ==
    {below \in [Bands -> BOOLEAN] :
        \A band \in Bands :
            freqVector[band] # Indeterminate
                => below[band] = (freqVector[band] < l_maxFreq)}

\* "inverse-TFT": the first nSH entries of band `band` of
\* pData->STFTOutputFrameTF, as handed to afSTFTinverse.
OutputFrame(below) ==
    [band \in Bands |->
        [ch \in 0..(l_nSH - 1) |->
            IF below[band] THEN Gained(l_gain_lin, SHframe(ch), band)
            ELSE Zero]]

\* The signal path: transform, encode, inverse transform, format.
SignalPath ==
    /\ AudAt("signal")
    /\ inputFrameTD' = InputFrame
    /\ SHframeTF' = [ch \in 0..(MAX_NUM_SH_SIGNALS - 1) |-> SHframe(ch)]
    /\ \E below \in BelowMaxFreq : STFTOutputFrameTF' = OutputFrame(below)
    /\ outputs' = [ch \in 0..(nOutputs - 1) |->
                     [i \in 1..nSamples |-> Normalised(Copied(ch, i), ch)]]
    /\ path' = "signal"
    /\ Goto("aud", "p_ret")
    /\ UNCHANGED <<flags, AudRest, rlog, locals, call, oob, nzAtCall>>
    /\ UNCHANGED calls

\* else{ for (ch=0; ch < nOutputs; ch++)
\*           memset(outputs[ch],0, FRAME_SIZE*sizeof(float)); }
Silence ==
    /\ AudAt("silence")
    /\ outputs' = [ch \in 0..(nOutputs - 1) |->
                     [i \in 1..nSamples |->
                        IF i <= FRAME_SIZE THEN Zero ELSE outputs[ch][i]]]
    /\ oob' = (nOutputs > 0 /\ FRAME_SIZE > nSamples)
    /\ path' = "silence"
    /\ Goto("aud", "p_ret")
    /\ UNCHANGED <<flags, AudRest, rlog, locals, call, work, nzAtCall>>
    /\ UNCHANGED calls

\* array2sh_process returns; the host takes its buffers back.
ProcessReturn ==
    /\ AudAt("p_ret")
    /\ Goto("aud", "idle")
    /\ nInputs' = 0 /\ nOutputs' = 0 /\ nSamples' = 0 /\ isPlaying' = 0
    /\ inputFrameTD' = <<>> /\ SHframeTF' = <<>> /\ STFTOutputFrameTF' = <<>>
    /\ l_chOrdering' = CH_ACN /\ l_norm' = NORM_N3D
    /\ l_Q' = 0 /\ l_order' = 0 /\ l_nSH' = 0
    /\ l_gain_lin' = Linear(0) /\ l_maxFreq' = 0
    /\ outputs' = <<>>
    /\ oob' = FALSE
    /\ path' = "none"
    /\ nzAtCall' = FALSE
    /\ UNCHANGED <<flags, AudRest, rlog>>
    /\ UNCHANGED calls

(* --------------------------- specification ---------------------------- *)
Next ==
    \/ \E t \in Threads : CheckTFT(t)
    \/ \E t \in Threads : MarkTFT(t)
    \/ \E t \in Threads : array2sh_initTFT(t)
    \/ \E t \in Threads : ClearTFT(t)
    \/ \E t \in Threads : CheckSHT(t)
    \/ \E t \in Threads : MarkSHT(t)
    \/ \E t \in Threads : array2sh_calculate_sht_matrix(t)
    \/ \E t \in Threads : ClearSHT(t)
    \/ \E t \in Threads : CheckEval(t)
    \/ \E t \in Threads : MarkEval(t)
    \/ \E t \in Threads : array2sh_evaluateSHTfilters(t)
    \/ \E t \in Threads : ClearEval(t)
    \/ array2sh_init
    \/ array2sh_setEncodingOrder \/ SetEncodingOrder_nSH \/ SetEncodingOrder_TFT
    \/ SetEncodingOrder_SHT \/ SetEncodingOrder_chOrdering \/ SetEncodingOrder_norm
    \/ array2sh_refreshSettings \/ RefreshSettings_SHT
    \/ array2sh_evaluateFilters
    \/ array2sh_setDiffEQpastAliasing \/ SetDiffEQpastAliasing_SHT
    \/ array2sh_setPreset \/ SetPreset_nSH \/ SetPreset_TFT \/ SetPreset_SHT
    \/ array2sh_setNumSensors \/ SetNumSensors_order \/ SetNumSensors_nSH
    \/ SetNumSensors_newQ \/ SetNumSensors_TFT \/ SetNumSensors_SHT
    \/ array2sh_setChOrder \/ array2sh_setNormType
    \/ array2sh_setSensorAzi_rad \/ array2sh_setSensorElev_rad
    \/ array2sh_setSensorAzi_deg \/ array2sh_setSensorElev_deg
    \/ array2sh_setr \/ array2sh_setR
    \/ array2sh_setArrayType \/ array2sh_setWeightType \/ array2sh_setFilterType
    \/ array2sh_setRegPar \/ array2sh_setc \/ array2sh_setGain
    \/ array2sh_setMaxFreq
    \/ array2sh_getEvalReady \/ GetEvalReady_clear
    \/ Return
    \/ array2sh_process
    \/ Gate_recalcEval \/ Gate_SHT \/ Gate_TFT
    \/ Prep_chOrdering \/ Prep_norm \/ Prep_gain_lin \/ Prep_maxFreq
    \/ Prep_Q \/ Prep_order \/ Prep_nSH
    \/ SignalPath \/ Silence \/ ProcessReturn

Spec == Init /\ [][Next]_vars
SpecSeq == InitSeq /\ [][Next]_vars
SpecPar == InitPar /\ [][Next]_vars
SpecBusy == InitBusy /\ [][Next]_vars


(* ----------------------- panner_initGainTables ------------------------ *)
(* One panner instance whose loudspeaker layout has been set; the encoder  *)
(* instance is idle.                                                       *)

Abs(x) == IF x < 0 THEN -x ELSE x
RECURSIVE SumElev(_)
\* sum_elev after i loudspeakers: sum_elev += fabsf(loudpkrs_dirs_deg[i][1])
SumElev(i) ==
    IF i = 0 THEN 0 ELSE SumElev(i - 1) + Abs(loudpkrs_dirs_deg[i - 1])

\* Elevations of the layouts: below, in and above the horizontal plane.
Elevations == {-30, 0, 30}

\* generateVBAPgainTable2D and generateVBAPgainTable3D: what they leave in
\* pData->vbap_gtable for the layout at hand.
Table2D == "2D"
Table3D == IF hull3D THEN "3D" ELSE "NULL"

encoder == <<apple, sched, flags, active, staged, config, latch, W, pc, calls,
             c_arg, c_old, rlog, audio>>
layout == <<force3D, nLoudpkrs, loudpkrs_dirs_deg, hull3D>>

InitPan ==
    /\ apple = FALSE
    /\ sched = "pan"
    /\ Create
    /\ NoCall
    /\ force3D \in BOOLEAN
    /\ nLoudpkrs \in 1..MaxLoudpkrs
    /\ loudpkrs_dirs_deg \in [0..(nLoudpkrs - 1) -> Elevations]
    /\ hull3D \in BOOLEAN
    /\ output_nDims \in {2, 3}
    /\ vbap_gtable = "NULL"
    /\ p_pc = "idle"
    /\ p_depth = 0

\* The host calls panner_initGainTables(hPan).
panner_initGainTables ==
    /\ p_pc = "idle"
    /\ p_pc' = "dims"
    /\ UNCHANGED <<encoder, layout, output_nDims, vbap_gtable, p_depth>>

\* "determine dimensionality", compiled in without FORCE_3D_LAYOUT:
\* if(sum_elev < 0.01f) output_nDims = 2; else output_nDims = 3;
InitGainTables_dims ==
    /\ p_pc = "dims"
    /\ output_nDims' = IF force3D THEN output_nDims
                       ELSE IF SumElev(nLoudpkrs) = 0 THEN 2 ELSE 3
    /\ p_pc' = "gen"
    /\ UNCHANGED <<encoder, layout, vbap_gtable, p_depth>>

\* "generate VBAP gain table": free1d, then the 3D table with
\* FORCE_3D_LAYOUT, and otherwise the table of the dimensionality found.
InitGainTables_generate ==
    /\ p_pc = "gen"
    /\ IF force3D
       THEN /\ output_nDims' = 3
            /\ vbap_gtable' = Table3D
            /\ p_pc' = "ret"
       ELSE IF output_nDims = 2
            THEN /\ vbap_gtable' = Table2D
                 /\ p_pc' = "ret"
                 /\ UNCHANGED output_nDims
            ELSE /\ vbap_gtable' = Table3D
                 /\ p_pc' = "chk"
                 /\ UNCHANGED output_nDims
    /\ UNCHANGED <<encoder, layout, p_depth>>

\* if(pData->vbap_gtable==NULL){ pData->output_nDims = 2;
\*     panner_initGainTables(hPan); }
\* The nested call starts at the top of the function; without room on the
\* stack for it the process ends.
InitGainTables_fallback ==
    /\ p_pc = "chk"
    /\ IF vbap_gtable = "NULL"
       THEN /\ output_nDims' = 2
            /\ IF p_depth < MaxDepth
               THEN p_pc' = "dims" /\ p_depth' = p_depth + 1
               ELSE p_pc' = "overflow" /\ UNCHANGED p_depth
       ELSE /\ p_pc' = "ret"
            /\ UNCHANGED <<output_nDims, p_depth>>
    /\ UNCHANGED <<encoder, layout, vbap_gtable>>

\* The innermost call returns: to the call that made it, which has nothing
\* left to do, or to the host.
InitGainTables_return ==
    /\ p_pc = "ret"
    /\ IF p_depth > 0
       THEN p_depth' = p_depth - 1 /\ p_pc' = "ret"
       ELSE p_pc' = "done" /\ UNCHANGED p_depth
    /\ UNCHANGED <<encoder, layout, output_nDims, vbap_gtable>>

NextPan ==
    \/ panner_initGainTables
    \/ InitGainTables_dims
    \/ InitGainTables_generate
    \/ InitGainTables_fallback
    \/ InitGainTables_return

SpecPan == InitPan /\ [][NextPan]_vars

(* ------------------------------- claims ------------------------------- *)
Quiescent == \A t \in Threads : pc[t] = "idle"
Flag(f) == flags[f]
\* The audio thread is past the gate, inside the signal path.
SignalPcs == {"prep_chOrdering", "prep_norm", "prep_gain_lin",
              "prep_maxFreq", "prep_Q", "prep_order",
              "prep_nSH", "signal"}
ReInitPcs == {"tft_chk", "tft_mark", "tft_init", "tft_clr", "sht_chk",
              "sht_mark", "sht_calc", "sht_clr", "eval_chk", "eval_mark",
              "eval_run", "eval_clr"}
\* The first FRAME_SIZE samples (or all, in a shorter block) of every
\* output channel are zero.
FrameSilent ==
    \A ch \in DOMAIN outputs : \A i \in DOMAIN outputs[ch] :
        i <= FRAME_SIZE => outputs[ch][i] = Zero
\* Every sample of the block is zero on every output channel.
BlockSilent ==
    \A ch \in DOMAIN outputs : \A i \in DOMAIN outputs[ch] :
        outputs[ch][i] = Zero
Before(log, a, b) ==
    \E i, j \in DOMAIN log : i < j /\ log[i] = a /\ log[j] = b
In(log, a) == \E i \in DOMAIN log : log[i] = a

\* C1 (as claimed): the signal path of array2sh_process runs only while
\* reinitTFTFLAG, reinitSHTmatrixFLAG and recalcEvalFLAG are all 0: at no
\* moment between passing the gate and the end of the signal path is a flag
\* non-zero.
C1_SignalPathOnlyWhileFlagsZero ==
    pc["aud"] \in SignalPcs => ~AnyFlag

C3_StagedNeverLost ==
    (Quiescent /\ ~AnyFlag) =>
        /\ order = new_order /\ nSH = new_nSH /\ Q = newQ
        /\ W = [order |-> order, nSH |-> nSH, Q |-> Q, preset |-> arrayPreset,
                diffEQ |-> enableDiffEQpastAliasing]

\* C4 (as claimed): a step of a setter changes a flag only from 0 to 1, and
\* a step of the reconciliation only from 1 to 2 or from 2 to 0.
C4_FlagTransitions ==
    [][ \A f \in 1..3 :
          Flag(f)' # Flag(f) =>
             IF \E t \in Threads : pc[t] \in ReInitPcs /\ pc'[t] # pc[t]
             THEN (Flag(f) = 1 /\ Flag(f)' = 2) \/ (Flag(f) = 2 /\ Flag(f)' = 0)
             ELSE Flag(f) = 0 /\ Flag(f)' = 1 ]_vars

\* C5: in one reconciliation that found both reinitTFTFLAG and
\* reinitSHTmatrixFLAG pending, the transform step has finished and written
\* its flag back to 0 before the matrix step starts; the diagnostics step
\* starts only after every step it follows has finished.
C5_StepsOrdered ==
    \A t \in Threads :
        /\ (In(rlog[t], "tft_begin") /\ In(rlog[t], "sht_begin"))
              => Before(rlog[t], "tft_end", "sht_begin")
        /\ (In(rlog[t], "tft_begin") /\ In(rlog[t], "eval_begin"))
              => Before(rlog[t], "tft_end", "eval_begin")
        /\ (In(rlog[t], "sht_begin") /\ In(rlog[t], "eval_begin"))
              => Before(rlog[t], "sht_end", "eval_begin")

\* C5 (witness): one reconciliation ran all three steps.
C5_Witness ==
    \E t \in Threads :
        rlog[t] = <<"tft_begin", "tft_end", "sht_begin", "sht_end", "eval_begin">>

\* C6 (as claimed): the order and nSH the signal path works with satisfy
\* nSH = (order+1)^2, and between setter calls new_nSH = (new_order+1)^2.
C6_ConsistentSnapshot ==
    /\ pc["aud"] = "signal" => l_nSH = (l_order + 1) * (l_order + 1)
    /\ pc["ctl"] = "idle" => new_nSH = (new_order + 1) * (new_order + 1)

\* C7 (as claimed): FuMa ordering or normalisation only at active order 1.
C7_FuMaOnlyFirstOrder ==
    /\ chOrdering = CH_FUMA => order = ENCODING_ORDER_FIRST
    /\ norm = NORM_FUMA => order = ENCODING_ORDER_FIRST

\* C8 (as claimed): array2sh_setEncodingOrder(2), called at active order 1
\* with chOrdering FuMa, returns with chOrdering ACN, and with norm SN3D if
\* norm was FuMa.
C8_OrderTwoDowngradesFuMa ==
    (/\ pc["ctl"] = "eo_ret" /\ c_arg = 2
     /\ c_old.order = ENCODING_ORDER_FIRST /\ c_old.chOrdering = CH_FUMA)
    => /\ chOrdering = CH_ACN
       /\ c_old.norm = NORM_FUMA => norm = NORM_SN3D

C10_WrongBlockSizeSilent ==
    (pc["aud"] = "p_ret" /\ nSamples # FRAME_SIZE)
    => (BlockSilent /\ ~oob /\ path = "silence")

\* The running call took the signal path and is about to return.
SignalDone == pc["aud"] = "p_ret" /\ path = "signal"
\* Output channel ch carries SH channel k, whatever its scaling.
Carries(ch, k) ==
    \A i \in DOMAIN outputs[ch] :
        outputs[ch][i].k = "sh" /\ outputs[ch][i].ch = k
\* Every sample of output channel ch is value v.
Holds(ch, v) == \A i \in DOMAIN outputs[ch] : outputs[ch][i] = v
ChannelSilent(ch) == Holds(ch, Zero)

\* C11 (as claimed): after the signal path every output channel with index
\* >= min(nSH, nOutputs) and < nOutputs is zero in every sample, for every
\* chOrdering, norm, nSH and nOutputs.
C11_ChannelsBeyondZero ==
    SignalDone =>
        \A ch \in DOMAIN outputs :
            ch >= MIN(l_nSH, nOutputs) => ChannelSilent(ch)

\* C12 (as claimed): with chOrdering FuMa the signal path puts SH channels
\* 0, 1, 2, 3 on output channels 0, 2, 3, 1 if the active order is 1 and
\* nOutputs >= 4, and in every other case leaves output channels 1..3 zero.
C12_FuMaRemap ==
    (SignalDone /\ l_chOrdering = CH_FUMA /\ isPlaying # 0) =>
        IF l_order = ENCODING_ORDER_FIRST /\ nOutputs >= 4
        THEN Carries(0, 0) /\ Carries(2, 1) /\ Carries(3, 2) /\ Carries(1, 3)
        ELSE \A ch \in DOMAIN outputs : ch \in 1..3 => ChannelSilent(ch)

C19_InputCopy ==
    SignalDone =>
        /\ \A i \in 0..(l_Q - 1) :
              /\ i \in DOMAIN inputFrameTD
              /\ inputFrameTD[i] = IF i < nInputs THEN Inp(i) ELSE Zero
        /\ \A i \in DOMAIN inputFrameTD : i < l_Q

\* The scenario of C20: order 1, four sensors, FuMa ordering and
\* normalisation, playing, and at least the four first-order outputs.
C20_Scenario ==
    /\ SignalDone /\ isPlaying # 0 /\ nOutputs >= 4
    /\ l_order = ENCODING_ORDER_FIRST /\ l_Q = 4
    /\ l_chOrdering = CH_FUMA /\ l_norm = NORM_FUMA

\* C20 (as claimed): output 0 is SH channel 0 over sqrt(2); SH channels 1 and
\* 3 are exchanged and channel 2 stays on output 2, each over sqrt(3).
C20_FuMaExchanged ==
    C20_Scenario =>
        /\ Holds(0, Div(Sig(0), 2))
        /\ Holds(1, Div(Sig(3), 3))
        /\ Holds(2, Div(Sig(2), 3))
        /\ Holds(3, Div(Sig(1), 3))

\* C20 (amended): output 0 is SH channel 0 over sqrt(2); output 1 is SH
\* channel 3, output 2 is SH channel 1 and output 3 is SH channel 2, each
\* over sqrt(3), when the host offers at least 4 output channels.
C20_FuMaRotated ==
    C20_Scenario =>
        /\ Holds(0, Div(Sig(0), 2))
        /\ Holds(1, Div(Sig(3), 3))
        /\ Holds(2, Div(Sig(1), 3))
        /\ Holds(3, Div(Sig(2), 3))

\* C20 (witness): the scenario has been processed.
C20_Witness ==
    C20_Scenario /\ Holds(2, Div(Sig(1), 3))

\* C13 (as claimed): a setter of the sensor count or of the order returns
\* with reinitTFTFLAG = 1 and reinitSHTmatrixFLAG = 1, and a setter of the
\* geometry, a radius, the array, weight or filter type, the regularisation,
\* the speed of sound or the diffuse-EQ toggle returns with
\* reinitSHTmatrixFLAG = 1, whatever the flags and staged values were.
C13_SettersRaiseFlags ==
    /\ pc["ctl"] \in {"eo_ret", "pr_ret"}
          => (reinitTFTFLAG = 1 /\ reinitSHTmatrixFLAG = 1)
    /\ (pc["ctl"] = "ns_ret" /\ newQ # c_old.newQ)
          => (reinitTFTFLAG = 1 /\ reinitSHTmatrixFLAG = 1)
    /\ pc["ctl"] \in {"geo_ret", "r_ret", "R_ret", "ty_ret", "rp_ret", "c_ret"}
          => reinitSHTmatrixFLAG = 1
    /\ (pc["ctl"] = "de_ret" /\ enableDiffEQpastAliasing # c_old.diffEQ)
          => reinitSHTmatrixFLAG = 1

\* C14: the active order, nSH and Q change only in the transform
\* reinitialisation step of a reconciliation, where they become the staged
\* new_order, new_nSH and newQ; no step of a setter changes them.
C14_ActiveOnlyInInitTFT ==
    [][ (order' # order \/ nSH' # nSH \/ Q' # Q) =>
           /\ \E t \in Threads : pc[t] = "tft_init" /\ pc'[t] = "tft_clr"
           /\ order' = new_order /\ nSH' = new_nSH /\ Q' = newQ ]_vars

\* C14 (witness): a reconciliation has made a staged higher order and
\* sensor count active.
C14_Witness ==
    \E t \in Threads :
        /\ pc[t] = "tft_clr"
        /\ order # ENCODING_ORDER_FIRST /\ order = new_order
        /\ Q # PresetQ("DEFAULT") /\ Q = newQ

\* What a clamping setter called with a leaves in the field: a itself when it
\* is within [lo, hi], the nearer limit otherwise.
StoredClamped(v, a, lo, hi) ==
    /\ lo <= v /\ v <= hi
    /\ (lo <= a /\ a <= hi) => v = a
    /\ a < lo => v = lo
    /\ a > hi => v = hi

\* C17: array2sh_setr, array2sh_setR, array2sh_setRegPar, array2sh_setc and
\* array2sh_setGain leave the stored value within the limits of the
\* parameter: the argument when it is within them, the nearer limit if not.
C17_Clamped ==
    /\ pc["ctl"] = "r_ret" =>
          StoredClamped(r, c_arg, ARRAY2SH_ARRAY_RADIUS_MIN_VALUE,
                        ARRAY2SH_ARRAY_RADIUS_MAX_VALUE)
    /\ pc["ctl"] = "R_ret" =>
          StoredClamped(R, c_arg, ARRAY2SH_BAFFLE_RADIUS_MIN_VALUE,
                        ARRAY2SH_BAFFLE_RADIUS_MAX_VALUE)
    /\ pc["ctl"] = "rp_ret" =>
          StoredClamped(regPar, c_arg, ARRAY2SH_MAX_GAIN_MIN_VALUE,
                        ARRAY2SH_MAX_GAIN_MAX_VALUE)
    /\ pc["ctl"] = "c_ret" =>
          StoredClamped(c, c_arg, ARRAY2SH_SPEED_OF_SOUND_MIN_VALUE,
                        ARRAY2SH_SPEED_OF_SOUND_MAX_VALUE)
    /\ pc["ctl"] = "g_ret" =>
          StoredClamped(gain_dB, c_arg, ARRAY2SH_POST_GAIN_MIN_VALUE,
                        ARRAY2SH_POST_GAIN_MAX_VALUE)

\* C17 (witness): array2sh_setr was called with a radius above the limit
\* and stored the limit.
C17_Witness ==
    /\ pc["ctl"] = "r_ret"
    /\ c_arg > ARRAY2SH_ARRAY_RADIUS_MAX_VALUE
    /\ r = ARRAY2SH_ARRAY_RADIUS_MAX_VALUE

\* C18 (as claimed): once a reconciliation has made the staged values
\* active, the active nSH does not exceed the active sensor count Q.
C18_nSHWithinQ ==
    (/\ Quiescent /\ ~AnyFlag
     /\ order = new_order /\ nSH = new_nSH /\ Q = newQ)
    => nSH <= Q

\* C15 (as claimed): the evaluation-ready latch is read-once.  A call of
\* array2sh_getEvalReady made after a recalculation has completed, with no
\* call since, returns 1; a call returns 1 only if a recalculation had
\* completed since the previous call, or completed while it ran.
C15_LatchReadOnce ==
    /\ (pc["ctl"] \in {"er_return0", "er_return1"} /\ c_old.fresh)
          => pc["ctl"] = "er_return1"
    /\ pc["ctl"] = "er_return1" => (c_old.fresh \/ fresh)

\* C21 (as claimed): whenever all three reinit flags are 0 the encoding
\* matrix in use was computed for the active order, nSH and Q and for the
\* current matrix-affecting parameters.
C21_MatrixCurrent ==
    ~AnyFlag =>
        W = [order |-> order, nSH |-> nSH, Q |-> Q, preset |-> arrayPreset,
             diffEQ |-> enableDiffEQpastAliasing]

\* C22 (as claimed): the two threads are never both inside the transform
\* reinitialisation step, nor both inside the encoding-matrix step.
C22_OneExecutionPerStep ==
    /\ ~(\A t \in Threads : pc[t] \in {"tft_init", "tft_clr"})
    /\ ~(\A t \in Threads : pc[t] \in {"sht_calc", "sht_clr"})

\* C23 (as claimed): with norm SN3D every sample of output channel ch, for
\* ch < min(nSH, nOutputs), is the N3D result divided exactly once by
\* sqrt(2n+1), n the order band of ch; with norm N3D no channel is scaled.
C23_SN3DScaling ==
    SignalDone =>
        \A ch \in DOMAIN outputs : \A i \in DOMAIN outputs[ch] :
            (ch < MIN(l_nSH, nOutputs) /\ outputs[ch][i].k = "sh") =>
                /\ l_norm = NORM_SN3D
                      => outputs[ch][i].den = <<2 * Band(ch) + 1>>
                /\ l_norm = NORM_N3D => outputs[ch][i].den = <<>>

\* Every sample of output channel ch is an SH signal divided once, by sqrt(d).
DividedBy(ch, d) ==
    \A i \in DOMAIN outputs[ch] :
        outputs[ch][i].k = "sh" /\ outputs[ch][i].den = <<d>>

\* C24 (as claimed): with norm FuMa a playing call divides output channel 0
\* by sqrt(2) and output channels 1..3 by sqrt(3) when nOutputs >= 4 and the
\* active order is 1; when nOutputs < 4 or the order is not 1 the output
\* channels 0..3 that exist are zero after the call.
C24_FuMaNorm ==
    (SignalDone /\ l_norm = NORM_FUMA /\ isPlaying # 0) =>
        IF nOutputs >= 4 /\ l_order = ENCODING_ORDER_FIRST
        THEN /\ DividedBy(0, 2)
             /\ \A ch \in 1..3 : DividedBy(ch, 3)
        ELSE \A ch \in DOMAIN outputs : ch <= 3 => ChannelSilent(ch)

\* C25 (as claimed): on the signal path, for every band and every SH channel
\* below nSH, the coefficient handed to the inverse transform is zero if the
\* band's centre frequency is >= maxFreq and the encoded SH value times the
\* linear post-gain if it is < maxFreq, with the maxFreq and gain the call
\* read at its start.
C25_FrequencyGate ==
    SignalDone =>
        \A band \in Bands : \A ch \in 0..(l_nSH - 1) :
            STFTOutputFrameTF[band][ch] =
                IF CentreFreq(band) >= l_maxFreq THEN Zero
                ELSE Gained(l_gain_lin, SHframeTF[ch], band)

\* C26: in the build that reconciles inline, array2sh_process writes 0 to a
\* pending reinitTFTFLAG and reinitSHTmatrixFLAG itself and reaches its gate
\* with both at 0, no step of it changes recalcEvalFLAG, and recalcEvalFLAG
\* leaves a non-zero value only in the diagnostics block of
\* array2sh_checkReInit on the control thread; so every call made while
\* recalcEvalFLAG is non-zero returns a frame of silence.
C26_InlineNeverClearsEval ==
    [][ ~apple =>
          /\ pc'["aud"] # pc["aud"] => recalcEvalFLAG' = recalcEvalFLAG
          /\ (pc["aud"] = "tft_clr" /\ pc'["aud"] # "tft_clr")
                => reinitTFTFLAG' = 0
          /\ (pc["aud"] = "sht_clr" /\ pc'["aud"] # "sht_clr")
                => reinitSHTmatrixFLAG' = 0
          /\ (pc["aud"] # "gate" /\ pc'["aud"] = "gate")
                => (reinitTFTFLAG' = 0 /\ reinitSHTmatrixFLAG' = 0)
          /\ (recalcEvalFLAG # 0 /\ recalcEvalFLAG' = 0)
                => pc["ctl"] = "eval_clr"
          /\ (pc["aud"] # "p_ret" /\ pc'["aud"] = "p_ret" /\ recalcEvalFLAG # 0)
                => (path' = "silence" /\ FrameSilent') ]_vars

\* C26 (witness): after array2sh_init has run the diagnostics and
\* array2sh_evaluateFilters has asked for them again, a full-frame call in
\* the inline build has returned silence with recalcEvalFLAG still 1.
C26_Witness ==
    /\ ~apple /\ pc["aud"] = "p_ret" /\ path = "silence"
    /\ nSamples = FRAME_SIZE /\ nOutputs > 0 /\ BlockSilent
    /\ recalcEvalFLAG = 1 /\ evalReady = 1
    /\ reinitTFTFLAG = 0 /\ reinitSHTmatrixFLAG = 0

\* The returns of the setters that ask for no reinitialisation.
PlainRet == {"g_ret", "mf_ret", "co_ret", "nt_ret"}

C27_FallbackTerminates ==
    /\ p_depth <= 1
    /\ p_pc # "overflow"
    /\ (p_pc = "done" /\ ~force3D /\ SumElev(nLoudpkrs) # 0 /\ ~hull3D)
          => (output_nDims = 2 /\ vbap_gtable = Table2D)

====
